---- MODULE Spec2Model ----
(***************************************************************************)
(* Model of src/providers/lightning_address_provider.py:                   *)
(* LightningAddressProvider.resolve_keysend and .resolve_lnurlp, run as    *)
(* one or several concurrent invocations against an injected requester.    *)
(*                                                                         *)
(* Python values are tagged records: [t |-> "null"], [t |-> "int", i],     *)
(* [t |-> "str", s] (s a sequence of characters/tokens), [t |-> "list", l],*)
(* [t |-> "dict", d] (d a function from keys to values), [t |-> "inf"].    *)
(***************************************************************************)
EXTENDS Integers, Sequences, FiniteSets, TLC

VARIABLES self, calls

vars == <<self, calls>>

(* ---------------------------- bounds ----------------------------------- *)

\* amounts requested range over 0..MaxAmount
MaxAmount == 4
\* messages have the lengths 0..MaxMessageLen
MaxMessageLen == 4
\* number of concurrent invocations in SpecConc
NumCalls == 2

(* ------------------------ program constants ---------------------------- *)

DefaultTimeout == 10

(* ------------------------- Python values ------------------------------- *)

None == [t |-> "null"]
JInt(i) == [t |-> "int", i |-> i]
JStr(s) == [t |-> "str", s |-> s]
JList(l) == [t |-> "list", l |-> l]
JDict(d) == [t |-> "dict", d |-> d]
\* float('inf')
Infinity == [t |-> "inf"]

EmptyDict == [k \in {} |-> None]

IsDict(v) == v.t = "dict"

\* dict.get(key, default)
GetDefault(v, key, default) == IF key \in DOMAIN v.d THEN v.d[key] ELSE default

\* dict.get(key)
Get(v, key) == GetDefault(v, key, None)

\* bool(v): the truth value Python's `not v` and `v and ...` test
Truthy(v) ==
    CASE v.t = "null" -> FALSE
      [] v.t = "int"  -> v.i # 0
      [] v.t = "str"  -> Len(v.s) > 0
      [] v.t = "list" -> Len(v.l) > 0
      [] v.t = "dict" -> DOMAIN v.d # {}
      [] OTHER        -> TRUE

\* whether `amount < v` / `amount > v` / `v > 0` is defined for an int on the other side
IsNumber(v) == v.t \in {"int", "inf"}

\* int < v, for a number v
IntLess(a, v) == IF v.t = "inf" THEN TRUE ELSE a < v.i

\* int > v mistaken for int >= v
IntGreater_OrEqual(a, v) == IF v.t = "inf" THEN FALSE ELSE a >= v.i

\* int > v, for a number v
IntGreater(a, v) == IF v.t = "inf" THEN FALSE ELSE a > v.i

(* --------------------------- strings ----------------------------------- *)

Whitespace == {" ", "\t", "\n", "\r"}

\* `ch in s`
Contains(s, ch) == \E i \in 1..Len(s) : s[i] = ch

\* index of the first occurrence of ch in s (s contains ch)
FirstIndex(s, ch) == CHOOSE i \in 1..Len(s) : s[i] = ch /\ \A j \in 1..(i - 1) : s[j] # ch

\* s.split(ch, 1): two parts around the first ch, or the whole of s when it has none
Split(s, ch) ==
    IF ~Contains(s, ch) THEN <<s>>
    ELSE LET i == FirstIndex(s, ch)
         IN  <<SubSeq(s, 1, i - 1), SubSeq(s, i + 1, Len(s))>>

\* str.strip()
Strip(s) ==
    LET keep == {i \in 1..Len(s) : s[i] \notin Whitespace}
    IN  IF keep = {} THEN <<>>
        ELSE LET lo == CHOOSE i \in keep : \A j \in keep : i <= j
                 hi == CHOOSE i \in keep : \A j \in keep : i >= j
             IN  SubSeq(s, lo, hi)

\* the blank test without its strip() half
Blank_NoStrip(text) == ~Truthy(text)

\* `not text or not text.strip()`
Blank(text) == ~Truthy(text) \/ Len(Strip(text.s)) = 0

\* the comment passed on uncut
Truncate_Off(message, n) == message

\* message[:n] for n > 0
Truncate(message, n) == SubSeq(message, 1, IF n < Len(message) THEN n ELSE Len(message))

\* `needle in container` for a str container
IsSubstring(needle, s) ==
    \E i \in 1..(Len(s) + 1) : i + Len(needle) - 1 <= Len(s)
                               /\ SubSeq(s, i, i + Len(needle) - 1) = needle

(* ------------------------- handler outcomes ---------------------------- *)

Return(value, json_called) == [kind |-> "return", value |-> value, json_called |-> json_called]
Raise(exc, json_called) == [kind |-> "raise", exc |-> exc, json_called |-> json_called]
Request(request, json_called) == [kind |-> "request", request |-> request, json_called |-> json_called]

\* self.requester("GET", url, timeout=self.timeout)
GetRequest(slf, url) ==
    [method |-> "GET", url |-> url, kwargs |-> ("timeout" :> slf.timeout)]

\* self.requester("GET", callback_url, params=params, timeout=self.timeout)
GetRequestParams(slf, url, params) ==
    [method |-> "GET", url |-> url, kwargs |-> ("params" :> params) @@ ("timeout" :> slf.timeout)]

KeysendResponse(pubkey, custom_data) ==
    [class |-> "KeysendResponse", pubkey |-> pubkey, custom_data |-> custom_data]

LnurlpResponse(invoice) == [class |-> "LnurlpResponse", invoice |-> invoice]

(* ------------------------- resolve_keysend ----------------------------- *)

\* f"https://{domain}/.well-known/keysend/{username}"
KeysendUrl(username, domain) ==
    JStr(<<"https://">> \o domain \o <<"/.well-known/keysend/">> \o username)

\* the address test reduced to an emptiness test
NoAt_EmptyOnly(lightning_address) == Len(lightning_address) = 0

\* `"@" not in lightning_address`
NoAt(lightning_address) == ~Contains(lightning_address, "@")

\* resolve_keysend up to the requester call; unpacking `username, domain = ...`
\* raises ValueError unless split returned two parts
resolve_keysend_begin(slf, args) ==
    IF NoAt(args.lightning_address) THEN Return(None, FALSE)
    ELSE LET parts == Split(args.lightning_address, "@") IN
         IF Len(parts) # 2 THEN Raise("ValueError", FALSE)
         ELSE Request(GetRequest(slf, KeysendUrl(parts[1], parts[2])), FALSE)

\* the status/tag test with `and` for `or`
NotKeysend_Both(data) ==
    Get(data, "status") # JStr(<<"OK">>) /\ Get(data, "tag") # JStr(<<"keysend">>)

\* `data.get("status") != "OK" or data.get("tag") != "keysend"`
NotKeysend(data) ==
    Get(data, "status") # JStr(<<"OK">>) \/ Get(data, "tag") # JStr(<<"keysend">>)

\* resolve_keysend from the requester's return (or raise) to the end
resolve_keysend_resume(slf, args, response) ==
    IF response.t = "raise" THEN Return(None, FALSE)
    ELSE IF Blank(response.text) THEN Return(None, FALSE)
    ELSE IF response.json.t = "JSONDecodeError" THEN Return(None, TRUE)
    ELSE LET data == response.json IN
         IF ~IsDict(data) THEN Raise("AttributeError", TRUE)
         ELSE IF NotKeysend(data) THEN Return(None, TRUE)
         ELSE Return(KeysendResponse(Get(data, "pubkey"),
                                     GetDefault(data, "customData", JList(<<>>))), TRUE)

(* ------------------------- resolve_lnurlp ------------------------------ *)

\* f"https://{domain}/.well-known/lnurlp/{username}"
LnurlpUrl(username, domain) ==
    JStr(<<"https://">> \o domain \o <<"/.well-known/lnurlp/">> \o username)

\* resolve_lnurlp up to the first requester call
resolve_lnurlp_begin(slf, args) ==
    IF NoAt(args.lightning_address) THEN Return(None, FALSE)
    ELSE LET parts == Split(args.lightning_address, "@") IN
         IF Len(parts) # 2 THEN Raise("ValueError", FALSE)
         ELSE Request(GetRequest(slf, LnurlpUrl(parts[1], parts[2])), FALSE)

\* `amount_msats < min_sendable or amount_msats > max_sendable`, left to right with
\* short circuit: "reject", "accept", or "TypeError" when an operand reached is no number
AmountCheck(amount_msats, min_sendable, max_sendable) ==
    IF ~IsNumber(min_sendable) THEN "TypeError"
    ELSE IF IntLess(amount_msats, min_sendable) THEN "reject"
    ELSE IF ~IsNumber(max_sendable) THEN "TypeError"
    ELSE IF IntGreater(amount_msats, max_sendable) THEN "reject"
    ELSE "accept"

\* `"name" in payer_data`: "yes", "no" or "TypeError"
NameIn(payer_data) ==
    CASE payer_data.t = "dict" ->
             IF "name" \in DOMAIN payer_data.d THEN "yes" ELSE "no"
      [] payer_data.t = "list" ->
             IF \E i \in 1..Len(payer_data.l) : payer_data.l[i] = JStr(<<"name">>)
             THEN "yes" ELSE "no"
      [] payer_data.t = "str"  ->
             IF IsSubstring(<<"name">>, payer_data.s) THEN "yes" ELSE "no"
      [] OTHER -> "TypeError"

\* the name sent whatever payerData declares
NameWanted_AnyPayer(sender_name, payer_data) ==
    IF Len(sender_name) = 0 THEN "no" ELSE "yes"

\* `sender_name and "name" in payer_data`: "yes", "no" or "TypeError"
NameWanted(sender_name, payer_data) ==
    IF Len(sender_name) = 0 THEN "no" ELSE NameIn(payer_data)

\* `message and max_comment_length > 0`: "yes", "no" or "TypeError"; with float('inf')
\* the comparison holds and the slice message[:inf] raises TypeError
CommentWanted(message, max_comment_length) ==
    IF Len(message) = 0 THEN "no"
    ELSE IF max_comment_length.t = "int"
         THEN (IF max_comment_length.i > 0 THEN "yes" ELSE "no")
    ELSE "TypeError"

\* lines 94-103: the callback parameters, or the exception raised while building them
BuildParams(lnurl_data, amount_msats, sender_name, message) ==
    LET payer_data == GetDefault(lnurl_data, "payerData", JDict(EmptyDict))
        name == NameWanted(sender_name, payer_data)
        params1 == "amount" :> amount_msats
    IN  IF name = "TypeError" THEN [exc |-> "TypeError"]
        ELSE LET params2 == IF name = "yes" THEN ("name" :> sender_name) @@ params1
                            ELSE params1
             IN
             IF ~IsDict(payer_data) THEN [exc |-> "AttributeError"]
             ELSE LET max_comment_length == GetDefault(payer_data, "commentAllowed", JInt(0))
                      comment == CommentWanted(message, max_comment_length)
                  IN  IF comment = "TypeError" THEN [exc |-> "TypeError"]
                      ELSE IF comment = "yes"
                      THEN [params |-> ("comment" :> Truncate(message, max_comment_length.i))
                                       @@ params2]
                      ELSE [params |-> params2]

\* resolve_lnurlp from the discovery requester's return (or raise) to the callback
\* requester call
resolve_lnurlp_discovered(slf, args, lnurl_response) ==
    IF lnurl_response.t = "raise" THEN Return(None, FALSE)
    ELSE IF Blank(lnurl_response.text) THEN Return(None, FALSE)
    ELSE IF lnurl_response.json.t = "JSONDecodeError" THEN Return(None, TRUE)
    ELSE LET lnurl_data == lnurl_response.json IN
         IF ~IsDict(lnurl_data) THEN Raise("AttributeError", TRUE)
         ELSE IF Get(lnurl_data, "tag") # JStr(<<"payRequest">>) THEN Return(None, TRUE)
         ELSE LET callback_url == Get(lnurl_data, "callback") IN
              IF ~Truthy(callback_url) THEN Return(None, TRUE)
              ELSE LET min_sendable == GetDefault(lnurl_data, "minSendable", JInt(0))
                       max_sendable == GetDefault(lnurl_data, "maxSendable", Infinity)
                       check == AmountCheck(args.amount_msats, min_sendable, max_sendable)
                   IN  IF check = "TypeError" THEN Raise("TypeError", TRUE)
                       ELSE IF check = "reject" THEN Return(None, TRUE)
                       ELSE LET built == BuildParams(lnurl_data, args.amount_msats,
                                                     args.sender_name, args.message)
                            IN  IF "exc" \in DOMAIN built THEN Raise(built.exc, TRUE)
                                ELSE Request(GetRequestParams(slf, callback_url, built.params), TRUE)

\* resolve_lnurlp from the callback requester's return (or raise) to the end
resolve_lnurlp_resume(slf, args, callback_response) ==
    IF callback_response.t = "raise" THEN Return(None, FALSE)
    ELSE IF Blank(callback_response.text) THEN Return(None, FALSE)
    ELSE IF callback_response.json.t = "JSONDecodeError" THEN Return(None, TRUE)
    ELSE LET callback_data == callback_response.json IN
         IF ~IsDict(callback_data) THEN Raise("AttributeError", TRUE)
         ELSE LET invoice == Get(callback_data, "pr") IN
              IF ~Truthy(invoice) THEN Return(None, TRUE)
              ELSE Return(LnurlpResponse(invoice), TRUE)

(* ------------------- the injected requester's behaviours --------------- *)

DictsOf(fields) == {JDict(d) : d \in fields}

\* an optional field: absent, or present with one of vals
Opt(key, vals) == {EmptyDict} \cup {key :> v : v \in vals}

RequestException == [t |-> "raise", exc |-> "RequestException"]

JSONDecodeError == [t |-> "JSONDecodeError"]

StatusCodes == {200, 500}

BlankTexts == {None, JStr(<<>>), JStr(<<" ", "\n">>)}

NonBlankTexts == {JStr(<<"body">>), JStr(<<" ", "body", "\n">>)}

\* response objects: .status_code, .text, and what .json() returns or raises
Responses(texts, jsons) ==
    {[t |-> "response", status_code |-> sc, text |-> tx, json |-> js] :
        sc \in StatusCodes, tx \in texts, js \in jsons}

NonObjects == {None, JList(<<>>)}

CustomData == JList(<<JDict(("key" :> JStr(<<"k">>)) @@ ("value" :> JStr(<<"v">>)))>>)

KeysendBodies ==
    {a @@ b @@ c @@ d :
        a \in Opt("status", {JStr(<<"OK">>), JStr(<<"ERROR">>)}),
        b \in Opt("tag", {JStr(<<"keysend">>), JStr(<<"payRequest">>)}),
        c \in Opt("pubkey", {JStr(<<"02ab">>)}),
        d \in Opt("customData", {CustomData, None})}

KeysendOk == ("status" :> JStr(<<"OK">>)) @@ ("tag" :> JStr(<<"keysend">>))
             @@ ("pubkey" :> JStr(<<"02ab">>)) @@ ("customData" :> CustomData)

CallbackUrl == JStr(<<"https://x/cb">>)

PayerDataValues ==
    {JDict(a @@ b) :
        a \in Opt("name", {JDict("mandatory" :> None)}),
        b \in Opt("commentAllowed", {JInt(0), JInt(2), JInt(0 - 1), JStr(<<"2">>)})}
    \cup {None, JList(<<JStr(<<"name">>)>>)}

\* discovery bodies that pass the tag and callback checks
PayRequestBodies ==
    {("tag" :> JStr(<<"payRequest">>)) @@ ("callback" :> CallbackUrl) @@ a @@ b @@ c :
        a \in Opt("minSendable", {JInt(1), JStr(<<"1">>)}),
        b \in Opt("maxSendable", {JInt(3), None}),
        c \in Opt("payerData", PayerDataValues)}

\* discovery bodies that fail the tag or the callback check
NotPayRequestBodies ==
    {a @@ b @@ c :
        a \in Opt("tag", {JStr(<<"payRequest">>), JStr(<<"keysend">>)}),
        b \in Opt("callback", {JStr(<<>>), CallbackUrl}),
        c \in Opt("minSendable", {JInt(1)})}
    \ PayRequestBodies

InvoiceBodies == Opt("pr", {JStr(<<"lnbc1">>), JStr(<<>>), None})

\* the bodies of a stub with a few canned answers
CannedDiscovery ==
    {("tag" :> JStr(<<"payRequest">>)) @@ ("callback" :> CallbackUrl)
        @@ ("payerData" :> JDict(("name" :> JDict(EmptyDict)) @@ ("commentAllowed" :> JInt(2)))),
     ("tag" :> JStr(<<"payRequest">>)) @@ ("callback" :> JStr(<<"https://y/cb">>))
        @@ ("maxSendable" :> JInt(2)),
     ("tag" :> JStr(<<"payRequest">>)) @@ ("callback" :> CallbackUrl)
        @@ ("minSendable" :> JInt(3))}

CannedResponses(jsons) ==
    {[t |-> "response", status_code |-> 200, text |-> JStr(<<"body">>), json |-> js] :
        js \in jsons}

\* what the requester may do on a call to the given endpoint: raise, or return a response
Behaviours(requester, endpoint) ==
    CASE requester = "stub" /\ endpoint = "keysend" ->
            {RequestException}
            \cup Responses(BlankTexts, {JSONDecodeError, JDict(KeysendOk)})
            \cup Responses(NonBlankTexts,
                           {JSONDecodeError} \cup NonObjects \cup DictsOf(KeysendBodies))
      [] requester = "stub" /\ endpoint = "lnurlp" ->
            {RequestException}
            \cup Responses(BlankTexts, {JSONDecodeError})
            \cup Responses(NonBlankTexts,
                           {JSONDecodeError} \cup NonObjects
                           \cup DictsOf(PayRequestBodies \cup NotPayRequestBodies))
      [] requester = "stub" /\ endpoint = "callback" ->
            {RequestException}
            \cup Responses(BlankTexts, {JSONDecodeError, JDict("pr" :> JStr(<<"lnbc1">>))})
            \cup Responses({JStr(<<"body">>)},
                           {JSONDecodeError} \cup NonObjects \cup DictsOf(InvoiceBodies))
      [] requester = "canned" /\ endpoint = "keysend" ->
            {RequestException} \cup CannedResponses({JDict(KeysendOk), JDict("status" :> JStr(<<"ERROR">>))})
      [] requester = "canned" /\ endpoint = "lnurlp" ->
            {RequestException} \cup CannedResponses({None} \cup DictsOf(CannedDiscovery))
      [] requester = "canned" /\ endpoint = "callback" ->
            CannedResponses({JSONDecodeError, JDict("pr" :> JStr(<<"lnbc1">>)),
                             JDict("pr" :> JStr(<<"lnbc2">>))})

(* --------------------------- invocations ------------------------------- *)

Addresses == {<<>>, <<"u">>, <<"u", "@", "d">>, <<"u", "@", "d", "@", "e">>}

Amounts == 0..MaxAmount

SenderNames == {<<>>, <<"n">>}

MessageText == <<"h", "e", "l", "o">>

\* the message of length n
Message(n) == [i \in 1..n |-> MessageText[((i - 1) % Len(MessageText)) + 1]]

Messages == {Message(n) : n \in 0..MaxMessageLen}

KeysendCalls(addresses) ==
    {[op |-> "resolve_keysend", args |-> [lightning_address |-> a]] : a \in addresses}

LnurlpCalls(addresses, amounts, names, messages) ==
    {[op |-> "resolve_lnurlp",
      args |-> [lightning_address |-> a, amount_msats |-> m, sender_name |-> n, message |-> t]] :
        a \in addresses, m \in amounts, n \in names, t \in messages}

\* an invocation about to start
Pending(call) ==
    [pc |-> "ready", op |-> call.op, args |-> call.args,
     requests |-> <<>>, responses |-> <<>>, json_calls |-> <<>>,
     outcome |-> [kind |-> "pending"]]

\* the locals of invocation c
Frame(c) == calls[c]

\* the arguments kept per operation on the shared provider: the first caller's win
Args_Shared(c) == IF calls[1].op = calls[c].op THEN calls[1].args ELSE calls[c].args

\* the arguments invocation c was called with
Args(c) == calls[c].args

\* the invocation after a stretch of code that ended in `out`
Advance(frame, out, wait_pc) ==
    IF out.kind = "request"
    THEN [frame EXCEPT !.pc = wait_pc, !.requests = Append(@, out.request)]
    ELSE [frame EXCEPT !.pc = "done",
                       !.outcome = IF out.kind = "return"
                                   THEN [kind |-> "return", value |-> out.value]
                                   ELSE [kind |-> "raise", exc |-> out.exc]]

\* the requester call of the invocation returned (or raised) `response`
Received(frame, response, out) ==
    [frame EXCEPT !.responses = Append(@, response),
                  !.json_calls = Append(@, out.json_called)]

(* ----------------------------- actions --------------------------------- *)

CallKeysend(c) ==
    /\ Frame(c).pc = "ready" /\ Frame(c).op = "resolve_keysend"
    /\ LET out == resolve_keysend_begin(self, Args(c))
       IN  calls' = [calls EXCEPT ![c] = Advance(Frame(c), out, "keysend")]
    /\ UNCHANGED self

KeysendAnswered(c) ==
    /\ Frame(c).pc = "keysend"
    /\ \E response \in Behaviours(self.requester, "keysend") :
          LET out == resolve_keysend_resume(self, Args(c), response)
          IN  calls' = [calls EXCEPT ![c] = Advance(Received(Frame(c), response, out), out, "none")]
    /\ UNCHANGED self

CallLnurlp(c) ==
    /\ Frame(c).pc = "ready" /\ Frame(c).op = "resolve_lnurlp"
    /\ LET out == resolve_lnurlp_begin(self, Args(c))
       IN  calls' = [calls EXCEPT ![c] = Advance(Frame(c), out, "lnurlp")]
    /\ UNCHANGED self

DiscoveryAnswered(c) ==
    /\ Frame(c).pc = "lnurlp"
    /\ \E response \in Behaviours(self.requester, "lnurlp") :
          LET out == resolve_lnurlp_discovered(self, Args(c), response)
          IN  calls' = [calls EXCEPT ![c] = Advance(Received(Frame(c), response, out), out, "callback")]
    /\ UNCHANGED self

CallbackAnswered(c) ==
    /\ Frame(c).pc = "callback"
    /\ \E response \in Behaviours(self.requester, "callback") :
          LET out == resolve_lnurlp_resume(self, Args(c), response)
          IN  calls' = [calls EXCEPT ![c] = Advance(Received(Frame(c), response, out), out, "none")]
    /\ UNCHANGED self

Next ==
    \/ \E c \in DOMAIN calls : CallKeysend(c)
    \/ \E c \in DOMAIN calls : KeysendAnswered(c)
    \/ \E c \in DOMAIN calls : CallLnurlp(c)
    \/ \E c \in DOMAIN calls : DiscoveryAnswered(c)
    \/ \E c \in DOMAIN calls : CallbackAnswered(c)

Init ==
    /\ self = [requester |-> "stub", timeout |-> DefaultTimeout]
    /\ calls \in [{1} -> {Pending(call) :
                            call \in KeysendCalls(Addresses)
                                     \cup LnurlpCalls(Addresses, Amounts, SenderNames, Messages)}]

Spec == Init /\ [][Next]_vars

\* NumCalls invocations in flight at once on one provider
InitConc ==
    /\ self = [requester |-> "canned", timeout |-> DefaultTimeout]
    /\ calls \in [1..NumCalls -> {Pending(call) :
                            call \in KeysendCalls({<<"u">>, <<"u", "@", "d">>})
                                     \cup LnurlpCalls({<<"u", "@", "d">>}, {2, 3},
                                                      {<<"n">>}, {Message(0), Message(3)})}]

SpecConc == InitConc /\ [][Next]_vars

(* ------------------- an invocation run on its own ---------------------- *)

\* the invocation `call` run alone from start, its requester calls answered in order
\* by `responses`, as far as they go
RunAlone(slf, call, responses) ==
    LET keysend == call.op = "resolve_keysend"
        f0 == Pending(call)
        f1 == IF keysend
              THEN Advance(f0, resolve_keysend_begin(slf, call.args), "keysend")
              ELSE Advance(f0, resolve_lnurlp_begin(slf, call.args), "lnurlp")
        f2 == IF f1.pc = "done" \/ Len(responses) < 1 THEN f1
              ELSE IF keysend
              THEN LET out == resolve_keysend_resume(slf, call.args, responses[1])
                   IN  Advance(Received(f1, responses[1], out), out, "none")
              ELSE LET out == resolve_lnurlp_discovered(slf, call.args, responses[1])
                   IN  Advance(Received(f1, responses[1], out), out, "callback")
        f3 == IF f2.pc # "callback" \/ Len(responses) < 2 THEN f2
              ELSE LET out == resolve_lnurlp_resume(slf, call.args, responses[2])
                   IN  Advance(Received(f2, responses[2], out), out, "none")
    IN  f3

(* ===================== properties of the provider ====================== *)

CallIds == DOMAIN calls

IsKeysend(c) == calls[c].op = "resolve_keysend"
IsLnurlp(c) == calls[c].op = "resolve_lnurlp"
Done(c) == calls[c].pc = "done"
ReturnedNone(c) ==
    Done(c) /\ calls[c].outcome.kind = "return" /\ calls[c].outcome.value = None
ReturnedResult(c) ==
    Done(c) /\ calls[c].outcome.kind = "return" /\ calls[c].outcome.value # None
Raised(c) == Done(c) /\ calls[c].outcome.kind = "raise"

HasAt(address) == \E i \in DOMAIN address : address[i] = "@"

\* the requester returned a response (it did not raise)
IsResponse(r) == r.t = "response"

\* the body is empty (or missing) or made of whitespace only
BlankBody(r) ==
    IsResponse(r) /\ (r.text.t = "null" \/ \A i \in DOMAIN r.text.s : r.text.s[i] \in Whitespace)

\* the body is non-blank and decodes to some JSON value
Decodable(r) == IsResponse(r) /\ ~BlankBody(r) /\ r.json.t # "JSONDecodeError"

\* the body is non-blank and decodes to a JSON object
IsObject(r) == Decodable(r) /\ r.json.t = "dict"

\* the JSON object of r has the field
Has(r, field) == field \in DOMAIN r.json.d

NonEmpty(v) ==
    \/ v.t = "str" /\ v.s # <<>>
    \/ v.t = "int" /\ v.i # 0
    \/ v.t = "list" /\ v.l # <<>>
    \/ v.t = "dict" /\ DOMAIN v.d # {}

\* the n-th response invocation c received
Resp(c, n) == calls[c].responses[n]
Answers(c) == Len(calls[c].responses)
Issued(c) == Len(calls[c].requests)

\* C1: every call ends by returning a result or none, never by raising
C1_NeverRaises == \A c \in CallIds : ~Raised(c)

\* C2: an address without "@" makes both operations return none with no transport call
C2_NoAtNoRequest ==
    \A c \in CallIds :
        (calls[c].pc # "ready" /\ ~HasAt(calls[c].args.lightning_address))
            => ReturnedNone(c) /\ Issued(c) = 0 /\ Answers(c) = 0

C2_Witness ==
    \E c \in CallIds : /\ IsLnurlp(c) /\ Done(c)
                        /\ calls[c].args.lightning_address = <<"u">>

\* a discovery response whose optional fields, where present, have the documented types
ValidPayRequest(r) ==
    /\ IsObject(r)
    /\ Has(r, "tag") /\ r.json.d["tag"] = JStr(<<"payRequest">>)
    /\ Has(r, "callback") /\ r.json.d["callback"].t = "str" /\ r.json.d["callback"].s # <<>>
    /\ Has(r, "minSendable") => r.json.d["minSendable"].t = "int"
    /\ Has(r, "maxSendable") => r.json.d["maxSendable"].t = "int"
    /\ Has(r, "payerData") =>
          /\ r.json.d["payerData"].t = "dict"
          /\ "commentAllowed" \in DOMAIN r.json.d["payerData"].d
                => r.json.d["payerData"].d["commentAllowed"].t = "int"

\* minSendable <= amount <= maxSendable, absent minSendable as 0, absent maxSendable unbounded
WithinBounds(amount, r) ==
    /\ Has(r, "minSendable") => r.json.d["minSendable"].i <= amount
    /\ ~Has(r, "minSendable") => 0 <= amount
    /\ Has(r, "maxSendable") => amount <= r.json.d["maxSendable"].i

\* C3: after a valid payRequest discovery the call proceeds to the callback exactly when
\* minSendable <= amountMsats <= maxSendable (inclusive, defaults 0 and unbounded),
\* and returns none otherwise
C3_InclusiveBounds ==
    \A c \in CallIds :
        (IsLnurlp(c) /\ Answers(c) >= 1 /\ ValidPayRequest(Resp(c, 1)))
            => /\ Issued(c) = 2 <=> WithinBounds(calls[c].args.amount_msats, Resp(c, 1))
               /\ Issued(c) # 2 => ReturnedNone(c)

C3_Witness ==
    \E c \in CallIds :
        /\ IsLnurlp(c) /\ Answers(c) >= 1 /\ ValidPayRequest(Resp(c, 1))
        /\ Has(Resp(c, 1), "minSendable") /\ Has(Resp(c, 1), "maxSendable")
        /\ calls[c].args.amount_msats = Resp(c, 1).json.d["maxSendable"].i
        /\ Issued(c) = 2

\* the amount lies inside the bounds the discovery object declares
InsideDeclaredBounds(amount, r) ==
    /\ Has(r, "minSendable") => r.json.d["minSendable"].t = "int" /\ r.json.d["minSendable"].i <= amount
    /\ ~Has(r, "minSendable") => 0 <= amount
    /\ Has(r, "maxSendable") => r.json.d["maxSendable"].t = "int" /\ amount <= r.json.d["maxSendable"].i

\* the discovery response passes the five checks: non-blank body, decodable JSON,
\* tag equal to payRequest, non-empty callback, amount inside the bounds
DiscoveryAccepted(amount, r) ==
    /\ Decodable(r)
    /\ IsObject(r)
    /\ Has(r, "tag") /\ r.json.d["tag"] = JStr(<<"payRequest">>)
    /\ Has(r, "callback") /\ NonEmpty(r.json.d["callback"])
    /\ InsideDeclaredBounds(amount, r)

IsDiscoveryGet(c, request) ==
    LET a == calls[c].args.lightning_address
        at == CHOOSE i \in DOMAIN a : a[i] = "@" /\ \A j \in 1..(i - 1) : a[j] # "@"
    IN  /\ request.method = "GET"
        /\ request.url = JStr(<<"https://">> \o SubSeq(a, at + 1, Len(a))
                               \o <<"/.well-known/lnurlp/">> \o SubSeq(a, 1, at - 1))
        /\ "params" \notin DOMAIN request.kwargs

\* at most two transport calls per resolve_lnurlp, discovery first, the callback only
\* after an accepted discovery response and to the URL it names; at most one per
\* resolve_keysend; no callback after a discovery response that was not accepted
C4_OrderOfRequests ==
    \A c \in CallIds :
        /\ IsKeysend(c) => Issued(c) <= 1 /\ Answers(c) <= Issued(c)
        /\ IsLnurlp(c) =>
              /\ Issued(c) <= 2 /\ Answers(c) <= Issued(c)
              /\ Issued(c) >= 1 => IsDiscoveryGet(c, calls[c].requests[1])
              /\ Issued(c) = 2 =>
                    /\ Answers(c) >= 1
                    /\ DiscoveryAccepted(calls[c].args.amount_msats, Resp(c, 1))
                    /\ calls[c].requests[2].method = "GET"
                    /\ calls[c].requests[2].url = Resp(c, 1).json.d["callback"]
              /\ (Answers(c) >= 1 /\ IsResponse(Resp(c, 1))
                     /\ ~DiscoveryAccepted(calls[c].args.amount_msats, Resp(c, 1)))
                    => Issued(c) = 1

\* C4: the requests of one call are at most two and in order (discovery, then the
\* callback only after an accepted discovery response), and whenever one of the checks
\* on the discovery response fails the call returns none without invoking the callback
C4_OrderAndNoneOnRejection ==
    /\ C4_OrderOfRequests
    /\ \A c \in CallIds :
          (IsLnurlp(c) /\ Answers(c) >= 1 /\ IsResponse(Resp(c, 1))
             /\ ~DiscoveryAccepted(calls[c].args.amount_msats, Resp(c, 1)))
            => ReturnedNone(c) /\ Issued(c) = 1

\* a result is returned only after both requests were answered and accepted, and its
\* invoice is the non-empty pr of the callback response
C5_NoPartialResult ==
    \A c \in CallIds :
        (IsLnurlp(c) /\ ReturnedResult(c))
            => /\ Issued(c) = 2 /\ Answers(c) = 2
               /\ DiscoveryAccepted(calls[c].args.amount_msats, Resp(c, 1))
               /\ IsObject(Resp(c, 2)) /\ Has(Resp(c, 2), "pr")
               /\ NonEmpty(Resp(c, 2).json.d["pr"])
               /\ calls[c].outcome.value.invoice = Resp(c, 2).json.d["pr"]

\* C5: no partial result is returned, and a callback response whose pr is absent or
\* empty yields none
C5_NoPartialResultAndNoneWithoutPr ==
    /\ C5_NoPartialResult
    /\ \A c \in CallIds :
          (IsLnurlp(c) /\ Answers(c) = 2 /\ Decodable(Resp(c, 2))
             /\ ~(IsObject(Resp(c, 2)) /\ Has(Resp(c, 2), "pr")
                   /\ NonEmpty(Resp(c, 2).json.d["pr"])))
            => ReturnedNone(c)

\* the callback parameters invocation c sent
Params(c) == calls[c].requests[2].kwargs["params"]

\* payerData.commentAllowed of the discovery response, 0 when not declared
CommentAllowed(r) ==
    IF Has(r, "payerData") /\ "commentAllowed" \in DOMAIN r.json.d["payerData"].d
    THEN r.json.d["payerData"].d["commentAllowed"]
    ELSE JInt(0)

\* C6: the callback carries comment exactly when message is non-empty and
\* commentAllowed = N > 0; its value is the first N characters of a longer message and
\* the whole message otherwise
C6_CommentTruncated ==
    \A c \in CallIds :
        (IsLnurlp(c) /\ Issued(c) = 2) =>
            LET n == CommentAllowed(Resp(c, 1))
                message == calls[c].args.message
            IN  /\ "comment" \in DOMAIN Params(c)
                      <=> (message # <<>> /\ n.t = "int" /\ n.i > 0)
                /\ "comment" \in DOMAIN Params(c) =>
                      IF Len(message) > n.i
                      THEN /\ Len(Params(c)["comment"]) = n.i
                           /\ \A i \in 1..n.i : Params(c)["comment"][i] = message[i]
                      ELSE Params(c)["comment"] = message

C6_Witness ==
    \E c \in CallIds :
        /\ IsLnurlp(c) /\ Issued(c) = 2
        /\ "comment" \in DOMAIN Params(c)
        /\ Len(calls[c].args.message) > CommentAllowed(Resp(c, 1)).i
        /\ Len(Params(c)["comment"]) = 2

\* the discovery response has a payerData object declaring name
DeclaresName(r) ==
    Has(r, "payerData") /\ r.json.d["payerData"].t = "dict"
        /\ "name" \in DOMAIN r.json.d["payerData"].d

\* C7: the callback always carries amount = amountMsats, and carries name = senderName
\* exactly when senderName is non-empty and payerData declares name
C7_AmountAndName ==
    \A c \in CallIds :
        (IsLnurlp(c) /\ Issued(c) = 2) =>
            /\ "amount" \in DOMAIN Params(c)
            /\ Params(c)["amount"] = calls[c].args.amount_msats
            /\ "name" \in DOMAIN Params(c)
                  <=> (calls[c].args.sender_name # <<>> /\ DeclaresName(Resp(c, 1)))
            /\ "name" \in DOMAIN Params(c) => Params(c)["name"] = calls[c].args.sender_name

C7_Witness ==
    \E c \in CallIds :
        /\ IsLnurlp(c) /\ Issued(c) = 2
        /\ "name" \in DOMAIN Params(c)
        /\ "comment" \notin DOMAIN Params(c)

\* the keysend body reports status OK and tag keysend
ReportsKeysend(r) ==
    /\ IsObject(r)
    /\ Has(r, "status") /\ r.json.d["status"] = JStr(<<"OK">>)
    /\ Has(r, "tag") /\ r.json.d["tag"] = JStr(<<"keysend">>)

\* C8: resolve_keysend returns a result exactly when the address has an "@", the
\* request succeeds and the non-blank JSON body reports status OK and tag keysend; the
\* result carries the body's pubkey (null if absent) and customData (empty if absent);
\* a body {"status": "ERROR"} yields none
C8_KeysendResult ==
    \A c \in CallIds :
        (IsKeysend(c) /\ Done(c)) =>
            /\ ReturnedResult(c)
                  <=> /\ HasAt(calls[c].args.lightning_address)
                      /\ Answers(c) = 1
                      /\ ReportsKeysend(Resp(c, 1))
            /\ ReturnedResult(c) =>
                  /\ calls[c].outcome.value.pubkey =
                        (IF Has(Resp(c, 1), "pubkey") THEN Resp(c, 1).json.d["pubkey"] ELSE None)
                  /\ calls[c].outcome.value.custom_data =
                        (IF Has(Resp(c, 1), "customData") THEN Resp(c, 1).json.d["customData"]
                         ELSE JList(<<>>))
            /\ (Answers(c) = 1 /\ IsObject(Resp(c, 1))
                   /\ Resp(c, 1).json.d = ("status" :> JStr(<<"ERROR">>)))
                  => ReturnedNone(c)

C8_Witness ==
    \E c \in CallIds :
        /\ IsKeysend(c) /\ ReturnedResult(c)
        /\ calls[c].outcome.value.pubkey = None
        /\ calls[c].outcome.value.custom_data = JList(<<>>)

\* C9: a response with an empty or whitespace-only body makes the call return none,
\* whatever its HTTP status and whichever request it answers, and its JSON decoder is
\* not consulted
C9_BlankBodyIsNone ==
    \A c \in CallIds :
        \A n \in 1..Answers(c) :
            BlankBody(Resp(c, n)) => ReturnedNone(c) /\ ~calls[c].json_calls[n]

C9_Witness ==
    \E c \in CallIds :
        /\ IsLnurlp(c) /\ Answers(c) = 2 /\ ReturnedNone(c)
        /\ IsResponse(Resp(c, 2))
        /\ Resp(c, 2).text = JStr(<<" ", "\n">>)
        /\ Resp(c, 2).status_code = 500
        /\ Resp(c, 2).json # JSONDecodeError

\* every invocation is where it would be had it run alone with its arguments and the
\* answers to its own requests
Isolated ==
    \A c \in CallIds :
        calls[c].pc # "ready" =>
          calls[c] = RunAlone(self,
                   [op |-> calls[c].op, args |-> calls[c].args],
                   calls[c].responses)

====
